---- MODULE Spec2Model ----
(***************************************************************************)
(* A model of the Typeshift solver (src/src/typeshift.rs and               *)
(* src/src/typeshift/collections.rs): the puzzle built by Typeshift::new,  *)
(* the partial solutions, their ranking, and the best-first search loop of *)
(* Typeshift::solve, one action per iteration of the loop.                 *)
(*                                                                         *)
(* A letter is modelled by its LetterMap index (ch - 'a'), a word by the   *)
(* sequence of its letters, a LetterSet by the set of its members and a    *)
(* LetterCounts by a function from letters to naturals.                    *)
(***************************************************************************)
EXTENDS Naturals, Sequences, FiniteSets

VARIABLES
    typeshift,    \* the Typeshift under solution: columns, words, char_freqs
    mode,         \* the SolveMode of the running call to solve
    to_check,     \* solve's BinaryHeap, as the heap's backing vector
    complete,     \* solve's set of complete solutions
    attempted,    \* solve's set of expanded word sets
    steps,        \* solve's step counter
    popped,       \* the partial solution bound by the last pop of the loop
    proposed,     \* what next_words returned in the last iteration, if called
    pc,           \* "loop", "returned" or "panicked"
    result,       \* the set of solutions solve returned
    panic,        \* the message of the panic that ended the call, or "none"
    first         \* what an earlier find_first_solution of the caller returned

vars == <<typeshift, mode, to_check, complete, attempted, steps, popped,
          proposed, pc, result, panic, first>>

----------------------------------------------------------------------------
(* The bound of the model and the dictionary *)

\* The most lines (columns) a puzzle input has.
MaxCols == 3

Range(s) == {s[i] : i \in DOMAIN s}

\* The static dictionary: the words of crate::dict::DICT, in file order.  A
\* small word list over three letters stands in for the generated one, and
\* words of 1 to 3 letters for its words of MIN_WORD_LEN to MAX_WORD_LEN.
DICT ==
    << <<0>>, <<1>>,
       <<0, 0>>, <<0, 1>>, <<0, 2>>, <<1, 0>>, <<1, 1>>, <<1, 2>>,
       <<2, 0>>, <<2, 1>>, <<2, 2>>,
       <<0, 0, 1>>, <<0, 0, 2>>, <<0, 1, 2>>, <<0, 2, 1>>, <<1, 0, 2>>,
       <<1, 1, 2>>, <<1, 2, 0>>, <<2, 0, 1>>, <<2, 1, 0>>, <<2, 1, 2>>,
       <<2, 2, 2>> >>

\* The letters of the dictionary, by index: the letters puzzle inputs draw on.
Letters == UNION {Range(word) : word \in Range(DICT)}

----------------------------------------------------------------------------
(* Generic helpers *)

Min(S) == CHOOSE x \in S : \A y \in S : x <= y

\* All sequences over S of length at most n.
SeqsUpTo(S, n) == UNION {[1..k -> S] : k \in 0..n}

----------------------------------------------------------------------------
(* LetterSet and LetterCounts (collections.rs) *)

\* Contains of a set that includes every letter: filter_counts filters
\* nothing.
ContainsEvery(col, ch) == TRUE

\* LetterSet::contains
Contains(col, ch) == ch \in col

\* LetterCounts::new
NewCounts == [ch \in Letters |-> 0]

\* LetterCounts::add
CountsAdd(counts, ch) == [counts EXCEPT ![ch] = @ + 1]

\* LetterCounts::get
CountsGet(counts, ch) == counts[ch]

\* The number of occurrences of ch in the words ws[1..n].
RECURSIVE Occurrences(_, _, _)
Occurrences(ws, n, ch) ==
    IF n = 0 THEN 0
    ELSE Occurrences(ws, n - 1, ch)
         + Cardinality({i \in DOMAIN ws[n] : ws[n][i] = ch})

\* LetterCounts::from_iter over the letters of all words of ws
CountsFromWords(ws) == [ch \in Letters |-> Occurrences(ws, Len(ws), ch)]

----------------------------------------------------------------------------
(* Typeshift::new *)

\* Spellable without the filter on the word's length: the zip stops at the
\* shorter of the word and the columns.
SpellableNoLength(word, columns) ==
    \A i \in (DOMAIN word) \cap (DOMAIN columns) : Contains(columns[i], word[i])

\* Spellable with any in place of all.
SpellableAnyColumn(word, columns) ==
    /\ Len(word) = Len(columns)
    /\ \E i \in DOMAIN word : Contains(columns[i], word[i])

\* The filter of Typeshift::new: the word has one letter per column, each in
\* its column's set.
Spellable(word, columns) ==
    /\ Len(word) = Len(columns)
    /\ \A i \in DOMAIN word : Contains(columns[i], word[i])

NewTypeshift(columns) ==
    LET words == SelectSeq(DICT, LAMBDA w : Spellable(w, columns))
    IN  [columns |-> columns, words |-> words, char_freqs |-> CountsFromWords(words)]

\* Typeshift::size
Size(ts) == Len(ts.words)

----------------------------------------------------------------------------
(* PartialSolution *)

\* PartialSolution::empty
Empty(ts) ==
    [used_words |-> {},
     char_usages |-> [i \in 1..Len(ts.columns) |-> NewCounts]]

\* AddWord that counts the word's first letter in every column.
AddWordFirstLetter(node, word) ==
    [used_words |-> node.used_words \cup {word},
     char_usages |-> [i \in DOMAIN node.char_usages |->
                        IF i \in DOMAIN word
                        THEN CountsAdd(node.char_usages[i], word[1])
                        ELSE node.char_usages[i]]]

\* AddWord without the insert into used_words.
AddWordCountsOnly(node, word) ==
    [used_words |-> node.used_words,
     char_usages |-> [i \in DOMAIN node.char_usages |->
                        IF i \in DOMAIN word
                        THEN CountsAdd(node.char_usages[i], word[i])
                        ELSE node.char_usages[i]]]

\* PartialSolution::add_word
AddWord(node, word) ==
    [used_words |-> node.used_words \cup {word},
     char_usages |-> [i \in DOMAIN node.char_usages |->
                        IF i \in DOMAIN word
                        THEN CountsAdd(node.char_usages[i], word[i])
                        ELSE node.char_usages[i]]]

\* IncludedCharCounts with the zip stopping one column short.
IncludedCharCountsButLast(ts, node) ==
    [p \in {<<i, ch>> \in (1..(Len(ts.columns) - 1)) \X Letters :
                Contains(ts.columns[i], ch)}
        |-> CountsGet(node.char_usages[p[1]], p[2])]

\* PartialSolution::included_char_counts with LetterSet::filter_counts: the
\* counts of the letters each column includes, keyed by their place.
IncludedCharCounts(ts, node) ==
    [p \in {<<i, ch>> \in (DOMAIN ts.columns) \X Letters :
                Contains(ts.columns[i], ch)}
        |-> CountsGet(node.char_usages[p[1]], p[2])]

\* Solved with any in place of all.
SolvedAny(ts, node) ==
    LET counts == IncludedCharCounts(ts, node)
    IN  \E p \in DOMAIN counts : counts[p] > 0

\* PartialSolution::solved
Solved(ts, node) ==
    LET counts == IncludedCharCounts(ts, node)
    IN  \A p \in DOMAIN counts : counts[p] > 0

\* PartialSolution::overlaps
Overlaps(ts, node) ==
    LET counts == IncludedCharCounts(ts, node)
    IN  Cardinality({p \in DOMAIN counts : counts[p] > 1})

\* NewLetters that finds no letter new.
NewLettersNone(node, word) == 0

\* PartialSolution::new_letters
NewLetters(node, word) ==
    Cardinality({i \in (DOMAIN word) \cap (DOMAIN node.char_usages) :
                    CountsGet(node.char_usages[i], word[i]) = 0})

\* PartialSolution::min_char_freq
MinCharFreq(ts, word) ==
    Min({CountsGet(ts.char_freqs, word[i]) : i \in DOMAIN word})

\* The rank tuple of rank_words: (Reverse(new_letters), min_char_freq).
WordRank(ts, node, word) ==
    [new |-> NewLetters(node, word), freq |-> MinCharFreq(ts, word)]

\* WordRankLess with min_char_freq descending.
WordRankLessFreqReversed(a, b) ==
    \/ a.new > b.new
    \/ a.new = b.new /\ a.freq > b.freq

\* The order of that tuple: lower is better.
WordRankLess(a, b) ==
    \/ a.new > b.new
    \/ a.new = b.new /\ a.freq < b.freq

\* One insertion of the stable sort: x goes behind every element of the
\* sorted s that is not greater than it.
RECURSIVE InsertRanked(_, _)
InsertRanked(s, x) ==
    IF s = <<>> THEN <<x>>
    ELSE IF WordRankLess(x.rank, s[Len(s)].rank)
         THEN Append(InsertRanked(SubSeq(s, 1, Len(s) - 1), x), s[Len(s)])
         ELSE Append(s, x)

RECURSIVE SortRanked(_, _)
SortRanked(s, n) ==
    IF n = 0 THEN <<>> ELSE InsertRanked(SortRanked(s, n - 1), s[n])

\* PartialSolution::rank_words: every word of the puzzle with its rank, in a
\* stable sort by rank.
RankWords(ts, node) ==
    LET ranked == [i \in DOMAIN ts.words |->
                     [word |-> ts.words[i],
                      rank |-> WordRank(ts, node, ts.words[i])]]
    IN  SortRanked(ranked, Len(ranked))

\* Iterator::take_while on the ranked words: the longest prefix of rank best.
RECURSIVE TakeWhileBest(_, _, _)
TakeWhileBest(ranked, best, i) ==
    IF i > Len(ranked) \/ ranked[i].rank # best THEN <<>>
    ELSE <<ranked[i].word>> \o TakeWhileBest(ranked, best, i + 1)

\* PartialSolution::next_words, for a puzzle with at least one word (with
\* none, first().unwrap() panics: see PopNoWords).
NextWords(ts, node) ==
    LET ranked_words == RankWords(ts, node)
        best_rank == ranked_words[1].rank
    IN  TakeWhileBest(ranked_words, best_rank, 1)

----------------------------------------------------------------------------
(* RankedSolution *)

\* RankedSolution::rank: (solved, Reverse(overlaps), used_words.len()).
Rank(ts, node) ==
    [solved |-> Solved(ts, node),
     overlaps |-> Overlaps(ts, node),
     len |-> Cardinality(node.used_words)]

\* RankLess without the Reverse around overlaps.
RankLessOverlapsNotReversed(a, b) ==
    \/ ~a.solved /\ b.solved
    \/ a.solved = b.solved /\ a.overlaps < b.overlaps
    \/ a.solved = b.solved /\ a.overlaps = b.overlaps /\ a.len < b.len

\* RankLess with a Reverse around used_words.len().
RankLessLenReversed(a, b) ==
    \/ ~a.solved /\ b.solved
    \/ a.solved = b.solved /\ a.overlaps > b.overlaps
    \/ a.solved = b.solved /\ a.overlaps = b.overlaps /\ a.len > b.len

\* Ord for RankedSolution: the lexicographic order of the rank tuples, where
\* false < true and Reverse turns the order of overlaps around.
RankLess(a, b) ==
    \/ ~a.solved /\ b.solved
    \/ a.solved = b.solved /\ a.overlaps > b.overlaps
    \/ a.solved = b.solved /\ a.overlaps = b.overlaps /\ a.len < b.len

RankedLeq(ts, m, n) == ~RankLess(Rank(ts, n), Rank(ts, m))

----------------------------------------------------------------------------
(* std::collections::BinaryHeap<RankedSolution>, as solve uses it.  The heap *)
(* is its backing vector; position p of the vector is element p + 1 of the  *)
(* sequence.                                                                 *)

\* BinaryHeap::sift_up with the hole's element elt at position pos.
RECURSIVE SiftUp(_, _, _, _, _)
SiftUp(ts, data, elt, start, pos) ==
    IF pos > start
    THEN LET parent == (pos - 1) \div 2
         IN  IF RankedLeq(ts, elt, data[parent + 1])
             THEN [data EXCEPT ![pos + 1] = elt]
             ELSE SiftUp(ts, [data EXCEPT ![pos + 1] = data[parent + 1]],
                         elt, start, parent)
    ELSE [data EXCEPT ![pos + 1] = elt]

\* BinaryHeap::push
HeapPush(ts, data, item) ==
    SiftUp(ts, Append(data, item), item, 0, Len(data))

\* BinaryHeap::sift_down_to_bottom: the hole goes down along the greater
\* children to a leaf, and its element is sifted up from there.
RECURSIVE SiftDownToBottom(_, _, _, _)
SiftDownToBottom(ts, data, elt, pos) ==
    LET end == Len(data)
        child == 2 * pos + 1
    IN  IF end >= 2 /\ child <= end - 2
        THEN LET greater == IF RankedLeq(ts, data[child + 1], data[child + 2])
                            THEN child + 1 ELSE child
             IN  SiftDownToBottom(ts, [data EXCEPT ![pos + 1] = data[greater + 1]],
                                  elt, greater)
        ELSE IF child = end - 1
             THEN SiftUp(ts, [data EXCEPT ![pos + 1] = data[child + 1]], elt, 0, child)
             ELSE SiftUp(ts, data, elt, 0, pos)

\* BinaryHeap::pop on a heap that is not empty: the greatest item and the
\* heap that is left.
HeapPop(ts, data) ==
    LET last == data[Len(data)]
        rest == SubSeq(data, 1, Len(data) - 1)
    IN  IF rest = <<>>
        THEN [item |-> last, data |-> rest]
        ELSE [item |-> rest[1], data |-> SiftDownToBottom(ts, rest, last, 0)]

----------------------------------------------------------------------------
(* Typeshift::solve *)

FindFirst == "FindFirst"
FindAll == "FindAll"

\* PushChildren without the test of attempted: every clone is pushed.
RECURSIVE PushChildrenUnchecked(_, _, _, _, _, _)
PushChildrenUnchecked(ts, heap, node, next_words, k, att) ==
    IF k = 0 THEN heap
    ELSE PushChildrenUnchecked(ts,
                               HeapPush(ts, heap, AddWord(node, next_words[k])),
                               node, next_words, k - 1, att)

\* PushChildren with the node's own set inserted into attempted before the
\* branching, not after it.
RECURSIVE PushChildrenNodeAttempted(_, _, _, _, _, _)
PushChildrenNodeAttempted(ts, heap, node, next_words, k, att) ==
    IF k = 0 THEN heap
    ELSE LET child == AddWord(node, next_words[k])
         IN  PushChildrenNodeAttempted(ts,
                          IF child.used_words \in att \cup {node.used_words}
                          THEN heap
                          ELSE HeapPush(ts, heap, child),
                          node, next_words, k - 1, att)

\* The inner loop of solve (lines 93-102): the proposed words are taken from
\* the end of next_words; each is added to a clone of the node, which is
\* pushed unless its word set was attempted.
RECURSIVE PushChildren(_, _, _, _, _, _)
PushChildren(ts, heap, node, next_words, k, att) ==
    IF k = 0 THEN heap
    ELSE LET child == AddWord(node, next_words[k])
         IN  PushChildren(ts,
                          IF child.used_words \in att THEN heap
                          ELSE HeapPush(ts, heap, child),
                          node, next_words, k - 1, att)

\* AllSmallest without the filter on minimum_size.
AllComplete(sols) == sols

\* AllSmallest keeping only the set min_by_key finds.
OneSmallest(sols) ==
    {CHOOSE sol \in sols : \A other \in sols : Cardinality(sol) <= Cardinality(other)}

\* Lines 107-116: the solutions of the least size among the complete ones.
AllSmallest(sols) ==
    LET minimum_size == Min({Cardinality(sol) : sol \in sols})
    IN  {sol \in sols : Cardinality(sol) = minimum_size}

NoFirst == [returned |-> FALSE, solution |-> {}, steps |-> 0]

\* The locals of solve as it enters its loop.
StartSolve(ts, m) ==
    /\ mode' = m
    /\ to_check' = <<Empty(ts)>>
    /\ complete' = {}
    /\ attempted' = {}
    /\ steps' = 0
    /\ popped' = Empty(ts)
    /\ proposed' = <<>>
    /\ pc' = "loop"
    /\ result' = {}
    /\ panic' = "none"

Init ==
    \E columns \in SeqsUpTo(SUBSET Letters, MaxCols), m \in {FindFirst, FindAll} :
        /\ typeshift = NewTypeshift(columns)
        /\ mode = m
        /\ to_check = <<Empty(typeshift)>>
        /\ complete = {}
        /\ attempted = {}
        /\ steps = 0
        /\ popped = Empty(typeshift)
        /\ proposed = <<>>
        /\ pc = "loop"
        /\ result = {}
        /\ panic = "none"
        /\ first = NoFirst

\* PopSolvedFirst without the return: the loop goes on to the next pop.
PopSolvedFirstNoReturn ==
    /\ pc = "loop" /\ to_check # <<>>
    /\ LET p == HeapPop(typeshift, to_check)
       IN  /\ Solved(typeshift, p.item)
           /\ mode = FindFirst
           /\ steps' = steps + 1
           /\ popped' = p.item
           /\ to_check' = p.data
    /\ proposed' = <<>>
    /\ UNCHANGED <<typeshift, mode, complete, attempted, pc, result, panic, first>>

\* An iteration that pops a solved node in FindFirst mode: solve returns.
PopSolvedFirst ==
    /\ pc = "loop" /\ to_check # <<>>
    /\ LET p == HeapPop(typeshift, to_check)
       IN  /\ Solved(typeshift, p.item)
           /\ mode = FindFirst
           /\ steps' = steps + 1
           /\ popped' = p.item
           /\ to_check' = p.data
           /\ result' = {p.item.used_words}
           /\ pc' = "returned"
    /\ proposed' = <<>>
    /\ UNCHANGED <<typeshift, mode, complete, attempted, panic, first>>

\* PopSolvedAll without the continue: the solved node also reaches the
\* insert into attempted at the end of the loop body.
PopSolvedAllMarksAttempted ==
    /\ pc = "loop" /\ to_check # <<>>
    /\ LET p == HeapPop(typeshift, to_check)
       IN  /\ Solved(typeshift, p.item)
           /\ mode = FindAll
           /\ steps' = steps + 1
           /\ popped' = p.item
           /\ to_check' = p.data
           /\ complete' = complete \cup {p.item.used_words}
           /\ attempted' = attempted \cup {p.item.used_words}
    /\ proposed' = <<>>
    /\ UNCHANGED <<typeshift, mode, pc, result, panic, first>>

\* An iteration that pops a solved node in FindAll mode: it is recorded.
PopSolvedAll ==
    /\ pc = "loop" /\ to_check # <<>>
    /\ LET p == HeapPop(typeshift, to_check)
       IN  /\ Solved(typeshift, p.item)
           /\ mode = FindAll
           /\ steps' = steps + 1
           /\ popped' = p.item
           /\ to_check' = p.data
           /\ complete' = complete \cup {p.item.used_words}
    /\ proposed' = <<>>
    /\ UNCHANGED <<typeshift, mode, attempted, pc, result, panic, first>>

\* An iteration that pops an unsolved node and branches on its next words.
PopExpand ==
    /\ pc = "loop" /\ to_check # <<>>
    /\ LET p == HeapPop(typeshift, to_check)
       IN  /\ ~Solved(typeshift, p.item)
           /\ Size(typeshift) > 0
           /\ steps' = steps + 1
           /\ popped' = p.item
           /\ LET next_words == NextWords(typeshift, p.item)
              IN  /\ proposed' = next_words
                  /\ to_check' = PushChildren(typeshift, p.data, p.item, next_words,
                                              Len(next_words), attempted)
           /\ attempted' = attempted \cup {p.item.used_words}
    /\ UNCHANGED <<typeshift, mode, complete, pc, result, panic, first>>

\* An iteration that pops an unsolved node of a puzzle without words:
\* ranked_words.first().unwrap() in next_words panics.
PopNoWords ==
    /\ pc = "loop" /\ to_check # <<>>
    /\ LET p == HeapPop(typeshift, to_check)
       IN  /\ ~Solved(typeshift, p.item)
           /\ Size(typeshift) = 0
           /\ steps' = steps + 1
           /\ popped' = p.item
           /\ to_check' = p.data
    /\ proposed' = <<>>
    /\ pc' = "panicked"
    /\ panic' = "unwrap on None"
    /\ UNCHANGED <<typeshift, mode, complete, attempted, result, first>>

\* The heap is empty and complete is not: solve returns the smallest.
Exhausted ==
    /\ pc = "loop" /\ to_check = <<>>
    /\ complete # {}
    /\ result' = AllSmallest(complete)
    /\ pc' = "returned"
    /\ UNCHANGED <<typeshift, mode, to_check, complete, attempted, steps, popped,
                   proposed, panic, first>>

\* The heap is empty and so is complete: expect("no solutions found") panics.
ExhaustedNoSolution ==
    /\ pc = "loop" /\ to_check = <<>>
    /\ complete = {}
    /\ pc' = "panicked"
    /\ panic' = "no solutions found"
    /\ UNCHANGED <<typeshift, mode, to_check, complete, attempted, steps, popped,
                   proposed, result, first>>

\* The caller of solve_all.rs and puzzle_snapshots.rs: find_first_solution
\* has returned its solution (pop_first of solve's set) and its steps, and
\* find_all_solutions is called on the same Typeshift.
CallFindAll ==
    /\ pc = "returned" /\ mode = FindFirst
    /\ first' = [returned |-> TRUE,
                 solution |-> CHOOSE sol \in result : TRUE,
                 steps |-> steps]
    /\ StartSolve(typeshift, FindAll)
    /\ UNCHANGED typeshift

Next ==
    \/ PopSolvedFirst
    \/ PopSolvedAll
    \/ PopExpand
    \/ PopNoWords
    \/ Exhausted
    \/ ExhaustedNoSolution
    \/ CallFindAll

Spec == Init /\ [][Next]_vars

\* The states in which an iteration of the loop pops a node: `while let
\* Some(..) = to_check.pop()` on a heap that is not empty.
Pops == pc = "loop" /\ to_check # <<>>

\* An iteration that pops, whatever it does with the node.
Iterate == PopSolvedFirst \/ PopSolvedAll \/ PopExpand \/ PopNoWords

\* solve is one sequential loop and solve_all one sequential caller: an
\* iteration, a return or a call that can run does run.  The fairness of
\* the popping iterations is WF_vars(Iterate), written out with
\* ENABLED <<Iterate>>_vars as Pops.
LiveSpec ==
    /\ Spec
    /\ []<>(~Pops) \/ []<><<Iterate>>_vars
    /\ WF_vars(Exhausted)
    /\ WF_vars(ExhaustedNoSolution)
    /\ WF_vars(CallFindAll)

----------------------------------------------------------------------------
(* solved() over arbitrary usage counts *)

\* The bounds of this specification: the columns of its puzzles and the
\* letters counted into a node, over all its columns.
MaxCountedCols == 2
MaxCounted == 3

\* The sum of counts over the letters of S.
RECURSIVE CountsTotal(_, _)
CountsTotal(counts, S) ==
    IF S = {} THEN 0
    ELSE LET ch == CHOOSE c \in S : TRUE
         IN  CountsGet(counts, ch) + CountsTotal(counts, S \ {ch})

\* The letters counted into the node's first n columns.
RECURSIVE Counted(_, _)
Counted(node, n) ==
    IF n = 0 THEN 0
    ELSE CountsTotal(node.char_usages[n], Letters) + Counted(node, n - 1)

\* A puzzle and an empty node over it, whose counters are then filled letter
\* by letter as LetterCounts::from_iter fills them in filter_counts_smoke:
\* with any letters, included in the column or not.
CountInit ==
    \E columns \in SeqsUpTo(SUBSET Letters, MaxCountedCols) :
        /\ typeshift = NewTypeshift(columns)
        /\ mode = FindFirst
        /\ to_check = <<>>
        /\ complete = {}
        /\ attempted = {}
        /\ steps = 0
        /\ popped = Empty(typeshift)
        /\ proposed = <<>>
        /\ pc = "counting"
        /\ result = {}
        /\ panic = "none"
        /\ first = NoFirst

\* LetterCounts::add of any letter on the counter of any column.
CountLetter ==
    /\ pc = "counting"
    /\ Counted(popped, Len(popped.char_usages)) < MaxCounted
    /\ \E i \in DOMAIN popped.char_usages, ch \in Letters :
           popped' = [popped EXCEPT !.char_usages[i] = CountsAdd(@, ch)]
    /\ UNCHANGED <<typeshift, mode, to_check, complete, attempted, steps,
                   proposed, pc, result, panic, first>>

CountSpec == CountInit /\ [][CountLetter]_vars

----------------------------------------------------------------------------
(* What the claims speak of *)

\* S is a cover: every letter a column allows stands at that column's
\* position in some word of S.
IsCover(ts, S) ==
    \A i \in DOMAIN ts.columns : \A ch \in ts.columns[i] :
        \E word \in S : i \in DOMAIN word /\ word[i] = ch

\* The covers of the puzzle by candidate words.
Covers(ts) == {S \in SUBSET Range(ts.words) : IsCover(ts, S)}

\* The covers of the least number of words.
MinimalCovers(ts) ==
    LET covers == Covers(ts)
    IN  {S \in covers : \A T \in covers : Cardinality(S) <= Cardinality(T)}

\* The size of the largest column.
MaxColumnSize(ts) ==
    IF ts.columns = <<>> THEN 0
    ELSE CHOOSE n \in {Cardinality(ts.columns[i]) : i \in DOMAIN ts.columns} :
            \A i \in DOMAIN ts.columns : Cardinality(ts.columns[i]) <= n

\* The call under way has returned to its caller.
Returned == pc = "returned"

\* The caller's earlier find_first_solution and the find_all_solutions that
\* followed it have both returned.
BothReturned == Returned /\ mode = FindAll /\ first.returned

----------------------------------------------------------------------------
(* C1 *)

\* C1: soundness. Every word set that find_first_solution returns, and every
\* word set in what find_all_solutions returns, is a cover: for every column
\* i and every letter allowed in column i, a word of the set has that letter
\* at position i.
C1_ReturnedSetsAreCovers ==
    /\ Returned => \A S \in result : IsCover(typeshift, S)
    /\ first.returned => IsCover(typeshift, first.solution)

\* Both calls have returned, find_all_solutions with several solutions of
\* three words each.
C1_Witness ==
    /\ BothReturned
    /\ Cardinality(result) >= 2
    /\ \A S \in result : Cardinality(S) = 3

----------------------------------------------------------------------------
(* C2 *)

\* C2: find_all_solutions returns all minimal covers. For every puzzle that
\* has a cover, the returned set of word sets is exactly the set of the
\* covers of minimum cardinality among the subsets of the candidate words.
C2_FindAllReturnsAllMinimalCovers ==
    (Returned /\ mode = FindAll) => result = MinimalCovers(typeshift)

----------------------------------------------------------------------------
(* C3 *)

\* C3: find_first_solution returns a minimal solution. For every puzzle that
\* has a cover, the returned word set has the smallest number of words among
\* all covers of the puzzle by candidate words.
C3_FindFirstReturnsMinimalCover ==
    (Returned /\ mode = FindFirst) => result \subseteq MinimalCovers(typeshift)

----------------------------------------------------------------------------
(* C4 *)

\* The heap has run empty with no complete cover recorded, and the call to
\* solve has ended.
EndedWithoutCover == pc # "loop" /\ to_check = <<>> /\ complete = {} /\ result = {}

\* C4: when the frontier empties with no complete cover recorded, the search
\* hands its caller a value that reports it (NoCoverExists): the call, in
\* FindFirst or in FindAll mode, returns and does not panic.
C4_NoCoverIsReportedNotPanicked ==
    (EndedWithoutCover /\ Size(typeshift) > 0) => Returned

----------------------------------------------------------------------------
(* C5 *)

\* The puzzle has a column that is not empty and no candidate word.
NoCandidates(ts) ==
    /\ Size(ts) = 0
    /\ \E i \in DOMAIN ts.columns : ts.columns[i] # {}

\* C5: for a puzzle with at least one non-empty column and no candidate
\* words, find_first_solution and find_all_solutions hand their caller the
\* NoCoverExists outcome: the call returns and does not panic.
C5_NoCandidatesIsReportedNotPanicked ==
    (NoCandidates(typeshift) /\ pc # "loop") => Returned

----------------------------------------------------------------------------
(* C6 *)

\* Parts (1) and (2) of the priority order: m goes before n when m is solved
\* and n is not, or when they are equally solved and m has fewer overlaps.
PrecedesBySolvedOrOverlaps(ts, m, n) ==
    \/ Solved(ts, m) /\ ~Solved(ts, n)
    \/ Solved(ts, m) = Solved(ts, n) /\ Overlaps(ts, m) < Overlaps(ts, n)

\* m and n tie on parts (1) and (2).
TiedBySolvedAndOverlaps(ts, m, n) ==
    Solved(ts, m) = Solved(ts, n) /\ Overlaps(ts, m) = Overlaps(ts, n)

\* C6: every pop removes a node of the frontier that no node then in the
\* frontier precedes, where a solved node precedes every unsolved one and,
\* among equally solved nodes, one with fewer overlaps precedes one with more.
C6_PopTakesSolvedThenFewestOverlaps ==
    [][steps' = steps + 1 =>
          /\ \E i \in DOMAIN to_check : to_check[i] = popped'
          /\ \A i \in DOMAIN to_check :
                ~PrecedesBySolvedOrOverlaps(typeshift, to_check[i], popped')]_vars

\* A solved node has just been popped in FindAll mode (so nothing was
\* pushed) from a frontier that held an unsolved node and a solved node with
\* more overlaps.
C6_Witness ==
    /\ pc = "loop" /\ mode = FindAll /\ steps > 0
    /\ Solved(typeshift, popped)
    /\ \E i \in DOMAIN to_check : ~Solved(typeshift, to_check[i])
    /\ \E j \in DOMAIN to_check :
          /\ Solved(typeshift, to_check[j])
          /\ Overlaps(typeshift, to_check[j]) > Overlaps(typeshift, popped)

----------------------------------------------------------------------------
(* C7 *)

\* C7 as claimed: among frontier nodes that tie on solved status and on
\* overlaps, a node with fewer chosen words is popped before a node with
\* more: the popped node has no more words than any node it ties with.
C7_PopTakesFewestWordsAmongTies ==
    [][steps' = steps + 1 =>
          \A i \in DOMAIN to_check :
              TiedBySolvedAndOverlaps(typeshift, to_check[i], popped') =>
                  Cardinality(popped'.used_words)
                      <= Cardinality(to_check[i].used_words)]_vars

\* C7 as amended: among frontier nodes that tie on solved status and on
\* overlaps, a node with more chosen words is popped before a node with
\* fewer: the popped node has no fewer words than any node it ties with.
C7_PopTakesMostWordsAmongTies ==
    [][steps' = steps + 1 =>
          \A i \in DOMAIN to_check :
              TiedBySolvedAndOverlaps(typeshift, to_check[i], popped') =>
                  Cardinality(popped'.used_words)
                      >= Cardinality(to_check[i].used_words)]_vars

\* A node has just been popped while a node that ties with it and has fewer
\* words stays in the frontier (a node pushed by this iteration has no fewer
\* words than the popped one, so that node was in the frontier at the pop).
C7_Witness ==
    /\ pc = "loop" /\ steps > 0
    /\ \E i \in DOMAIN to_check :
          /\ TiedBySolvedAndOverlaps(typeshift, to_check[i], popped)
          /\ Cardinality(to_check[i].used_words) < Cardinality(popped.used_words)

----------------------------------------------------------------------------
(* C9 *)

\* C9: find_all contains find_first. When the word set find_first_solution
\* returned has the cardinality of the sets find_all_solutions returns on
\* the same puzzle, it is one of them.
C9_FindAllContainsFindFirst ==
    (BothReturned
        /\ \A S \in result : Cardinality(S) = Cardinality(first.solution))
    => first.solution \in result

\* Both calls have returned, the sizes agree and find_all_solutions has
\* returned other solutions besides.
C9_Witness ==
    /\ BothReturned
    /\ \A S \in result : Cardinality(S) = Cardinality(first.solution)
    /\ Cardinality(result) >= 2
    /\ first.solution \in result

----------------------------------------------------------------------------
(* C10 *)

\* C10: lower bound. Every set find_first_solution returns or
\* find_all_solutions contains has at least as many words as the largest
\* column has allowed letters.
C10_SolutionsAreNoSmallerThanWidestColumn ==
    /\ Returned => \A S \in result : Cardinality(S) >= MaxColumnSize(typeshift)
    /\ first.returned => Cardinality(first.solution) >= MaxColumnSize(typeshift)

\* A call has returned a solution with more words than the widest column of
\* three letters has.
C10_Witness ==
    /\ Returned
    /\ MaxColumnSize(typeshift) = 3
    /\ \E S \in result : Cardinality(S) > 3

----------------------------------------------------------------------------
(* C11 *)

\* The word has the shape of the puzzle: as many letters as there are
\* columns, each one allowed in its column.
WellShaped(ts, word) ==
    /\ Len(word) = Len(ts.columns)
    /\ \A i \in 1..Len(word) : word[i] \in ts.columns[i]

\* The chosen sets of the nodes in the frontier and of the popped node, and
\* the word sets solve keeps or hands out.
ChosenSets ==
    {to_check[i].used_words : i \in DOMAIN to_check}
        \cup {popped.used_words, first.solution}
        \cup complete \cup attempted \cup result

\* C11: length and shape. Every word of a returned solution, and every word
\* ever placed in a node's chosen set, has as many letters as the puzzle has
\* columns, and at each position a letter of that column's allowed set.
C11_ChosenWordsHaveThePuzzlesShape ==
    \A S \in ChosenSets : \A word \in S : WellShaped(typeshift, word)

\* find_all_solutions has returned solutions of two-letter words while the
\* dictionary holds two-letter words the columns do not allow, and words of
\* other lengths.
C11_Witness ==
    /\ Returned /\ mode = FindAll
    /\ Len(typeshift.columns) = 2
    /\ \E S \in result : Cardinality(S) >= 2
    /\ \E i \in DOMAIN DICT : Len(DICT[i]) = 2 /\ ~WellShaped(typeshift, DICT[i])

----------------------------------------------------------------------------
(* C12 *)

\* The place of a word in the dictionary.
DictIndex(word) == CHOOSE i \in DOMAIN DICT : DICT[i] = word

\* C12: the candidate list holds exactly the dictionary words of the
\* puzzle's shape, only and all of them, in dictionary order, and size() is
\* their number.
C12_CandidatesAreTheSpellableWords ==
    /\ Range(typeshift.words) = {word \in Range(DICT) : WellShaped(typeshift, word)}
    /\ \A i, j \in DOMAIN typeshift.words :
          i < j => DictIndex(typeshift.words[i]) < DictIndex(typeshift.words[j])
    /\ Size(typeshift)
          = Cardinality({i \in DOMAIN DICT : WellShaped(typeshift, DICT[i])})

\* A puzzle of three columns whose construction kept several words and left
\* out three-letter words as well as shorter ones.
C12_Witness ==
    /\ Len(typeshift.columns) = 3
    /\ Size(typeshift) >= 3
    /\ \E i \in DOMAIN DICT : Len(DICT[i]) = 3 /\ ~WellShaped(typeshift, DICT[i])

----------------------------------------------------------------------------
(* C13 *)

\* The word that columns of one letter each spell.
SpelledWord(ts) ==
    [i \in DOMAIN ts.columns |-> CHOOSE ch \in ts.columns[i] : TRUE]

\* Every column allows exactly one letter, and the word they spell is a
\* candidate.
SingleWordPuzzle(ts) ==
    /\ \A i \in DOMAIN ts.columns : Cardinality(ts.columns[i]) = 1
    /\ SpelledWord(ts) \in Range(ts.words)

\* C13: for a puzzle in which every column has exactly one allowed letter
\* and the word spelled by those letters is a candidate, find_first_solution
\* returns the set of exactly that word and find_all_solutions returns the
\* singleton of that set; neither panics.
C13_SingleWordPuzzleYieldsThatWord ==
    SingleWordPuzzle(typeshift) =>
        /\ pc # "panicked"
        /\ Returned => result = {{SpelledWord(typeshift)}}
        /\ first.returned => first.solution = {SpelledWord(typeshift)}

\* Both calls have returned on a puzzle of three one-letter columns.
C13_Witness ==
    /\ SingleWordPuzzle(typeshift)
    /\ Len(typeshift.columns) = 3
    /\ BothReturned

----------------------------------------------------------------------------
(* C14 *)

\* C14: invalid puzzle input is reported, not solved. A puzzle of zero
\* columns (empty input) yields InvalidPuzzleInput for the caller and never a
\* normal solution: no call on it returns a set of solutions.
C14_ZeroColumnsIsNotSolved ==
    Len(typeshift.columns) = 0 => ~Returned

----------------------------------------------------------------------------
(* C15 *)

\* A step of the loop that pops an unsolved node and generates its children.
ExpandsPopped ==
    /\ pc = "loop" /\ pc' = "loop"
    /\ steps' = steps + 1
    /\ ~Solved(typeshift, popped')

\* C15: no state is re-expanded. During one run of the search, a node that
\* is popped and expanded has a chosen-word set that no earlier expanded node
\* of the run had (attempted holds the sets of the nodes expanded so far).
C15_NoSetIsExpandedTwice ==
    [][ExpandsPopped => popped'.used_words \notin attempted]_vars

----------------------------------------------------------------------------
(* C16 *)

\* The nodes the search holds: the frontier and the node popped last.
Nodes == Range(to_check) \cup {popped}

\* The usage count of every (column, letter) is the number of chosen words
\* with that letter in that column.
UsageCountsMatch(node) ==
    \A i \in DOMAIN node.char_usages : \A ch \in Letters :
        CountsGet(node.char_usages[i], ch)
            = Cardinality({word \in node.used_words : word[i] = ch})

\* C16: usage-count invariant. For every node created by the search, in the
\* frontier or popped, for every column i and letter c, the node's usage
\* count for (i, c) equals the number of words in its chosen set whose
\* letter at position i is c.
C16_UsageCountsAreWordCounts ==
    \A node \in Nodes : UsageCountsMatch(node)

----------------------------------------------------------------------------
(* C17 *)

\* C17: next_words proposes only still-available words. For every node
\* expanded by the search, no word returned by next_words is already in
\* that node's chosen set, so that every child built from it has exactly one
\* more chosen word than its parent.
C17_ProposedWordsAreUnused ==
    \A k \in DOMAIN proposed :
        /\ proposed[k] \notin popped.used_words
        /\ Cardinality(AddWord(popped, proposed[k]).used_words)
               = Cardinality(popped.used_words) + 1

----------------------------------------------------------------------------
(* C18 *)

\* The number of columns where the node has not yet used the word's letter.
FreshColumns(node, word) ==
    Cardinality({i \in DOMAIN word : node.char_usages[i][word[i]] = 0})

\* The smallest rarity-table count over the letters of the word.
Rarity(ts, word) ==
    CHOOSE n \in {ts.char_freqs[word[i]] : i \in DOMAIN word} :
        \A i \in DOMAIN word : n <= ts.char_freqs[word[i]]

\* The candidates with the most fresh columns and, among those, the smallest
\* rarity.
BestTie(ts, node) ==
    LET most == {w \in Range(ts.words) : \A v \in Range(ts.words) :
                    FreshColumns(node, w) >= FreshColumns(node, v)}
    IN  {w \in most : \A v \in most : Rarity(ts, w) <= Rarity(ts, v)}

\* C18: next_words returns exactly the best-ranked tie. For an expanded
\* node, the returned words are exactly the candidates that maximise the
\* number of columns where the node's usage count of the word's letter is
\* zero and, among those, minimise the smallest rarity-table count over the
\* word's letters; each is returned once and no other candidate is returned.
C18_NextWordsIsTheBestTie ==
    proposed # <<>> =>
        /\ Range(proposed) = BestTie(typeshift, popped)
        /\ Len(proposed) = Cardinality(BestTie(typeshift, popped))

\* An expansion where some candidate lost on fresh columns, another lost on
\* rarity alone, and two words tied for the best rank.
C18_Witness ==
    /\ proposed # <<>>
    /\ Len(proposed) >= 2
    /\ \E w \in Range(proposed), v \in Range(typeshift.words) :
           FreshColumns(popped, v) < FreshColumns(popped, w)
    /\ \E w \in Range(proposed), v \in Range(typeshift.words) :
           /\ FreshColumns(popped, v) = FreshColumns(popped, w)
           /\ Rarity(typeshift, v) > Rarity(typeshift, w)

----------------------------------------------------------------------------
(* C19 *)

\* C19: in find-first mode the search returns at the first step whose popped
\* node is solved. Every pop adds one to the step count and nothing else
\* changes it during a run, so the count is the number of nodes popped; a
\* find-first run returns exactly at the pop of a solved node, no solved
\* node was popped before it, the returned set is that node's chosen set,
\* the returned count includes that pop (at least 1), and after the return
\* nothing is popped: the only step left is a new call, which is handed the
\* returned set and count.
C19_FindFirstReturnsAtFirstSolvedPop ==
    [][/\ Pops => steps' = steps + 1
       /\ (pc = "loop" /\ ~Pops) => steps' = steps
       /\ (mode = FindFirst /\ Pops) =>
              /\ pc' = "returned" <=> Solved(typeshift, popped')
              /\ steps > 0 => ~Solved(typeshift, popped)
       /\ (mode = FindFirst /\ pc = "loop" /\ pc' = "returned") =>
              /\ Pops
              /\ result' = {popped'.used_words}
              /\ steps' >= 1
       /\ (mode = FindFirst /\ pc = "returned") =>
              /\ mode' = FindAll /\ pc' = "loop" /\ steps' = 0
              /\ first' = [returned |-> TRUE, solution |-> popped.used_words,
                           steps |-> steps]
      ]_vars

\* A find-first run that returned at its fourth pop or later and left nodes
\* in the frontier.
C19_Witness ==
    /\ Returned /\ mode = FindFirst
    /\ steps >= 4
    /\ to_check # <<>>

----------------------------------------------------------------------------
(* C20 *)

\* C20: in find-all mode a popped solved node is recorded in complete and is
\* never expanded: the step that pops it pushes no child (the frontier only
\* loses the popped node), calls no next_words and leaves attempted alone,
\* and the loop goes on. A find-all run returns only from an empty frontier,
\* and every set ever in complete is a cover.
C20_FindAllRecordsSolvedAndGoesOn ==
    /\ [](\A S \in complete : IsCover(typeshift, S))
    /\ []((mode = FindAll /\ Returned) => to_check = <<>>)
    /\ [][/\ (mode = FindAll /\ Pops /\ Solved(typeshift, popped')) =>
                 /\ complete' = complete \cup {popped'.used_words}
                 /\ attempted' = attempted
                 /\ proposed' = <<>>
                 /\ Len(to_check') = Len(to_check) - 1
                 /\ Range(to_check') \subseteq Range(to_check)
                 /\ pc' = "loop"
          /\ (mode = FindAll /\ pc = "loop" /\ pc' = "returned") =>
                 to_check = <<>>
         ]_vars

\* A find-all run that recorded three solved nodes or more, not all of them
\* of the smallest size, and returned.
C20_Witness ==
    /\ Returned /\ mode = FindAll
    /\ Cardinality(complete) >= 3
    /\ complete # result
    /\ attempted # {}

----------------------------------------------------------------------------
(* C21 *)

\* C21: when the frontier empties in find-all mode with complete non-empty,
\* the run returns, and the result is exactly the sets of complete whose
\* cardinality is the least in complete: the result is not empty, all
\* returned sets have equal size and no set recorded in complete during the
\* run is smaller than them.
C21_ResultIsTheSmallestOfComplete ==
    /\ [][(mode = FindAll /\ pc = "loop" /\ to_check = <<>> /\ complete # {}) =>
              /\ pc' = "returned"
              /\ complete' = complete]_vars
    /\ []((mode = FindAll /\ Returned) =>
              /\ result # {}
              /\ result = {S \in complete : \A T \in complete :
                              Cardinality(S) <= Cardinality(T)}
              /\ \A S, T \in result : Cardinality(S) = Cardinality(T))

\* A find-all run that returned two sets or more and had recorded a larger
\* one.
C21_Witness ==
    /\ Returned /\ mode = FindAll
    /\ Cardinality(result) >= 2
    /\ \E S \in complete, T \in result : Cardinality(S) > Cardinality(T)

----------------------------------------------------------------------------
(* C22 *)

\* The number of copies of node x in the frontier q.
CountIn(q, x) == Cardinality({i \in DOMAIN q : q[i] = x})

\* The proposed words whose clone of node is pushed: the clone's chosen set
\* is not in the visited sets att.
PushedWords(node, words, att) ==
    {k \in DOMAIN words : AddWord(node, words[k]).used_words \notin att}

\* C22: branching protocol. When an unsolved node is expanded, for each
\* proposed word a clone with that word added is pushed onto the frontier if
\* and only if the clone's chosen set is not in attempted as it was before
\* the expansion: the frontier loses the popped node and gains exactly those
\* clones, one per such word. The expanded node's own set enters attempted
\* with the expansion and nothing else does, after its words were processed:
\* a clone with the node's own set is still pushed.
C22_BranchingPushesUnattemptedClones ==
    [][ExpandsPopped =>
          /\ proposed' # <<>>
          /\ attempted' = attempted \cup {popped'.used_words}
          /\ \A x \in Range(to_check) \cup Range(to_check') \cup {popped'}
                    \cup {AddWord(popped', proposed'[k]) : k \in DOMAIN proposed'} :
                 CountIn(to_check', x) + (IF x = popped' THEN 1 ELSE 0)
                     = CountIn(to_check, x)
                       + Cardinality({k \in PushedWords(popped', proposed', attempted) :
                                         AddWord(popped', proposed'[k]) = x})
      ]_vars

\* An expansion that skipped a clone whose set was attempted and pushed a
\* clone with the expanded node's own set.
C22_Witness ==
    /\ proposed # <<>>
    /\ \E k \in DOMAIN proposed :
           /\ AddWord(popped, proposed[k]).used_words \in attempted
           /\ AddWord(popped, proposed[k]).used_words # popped.used_words
    /\ \E k \in DOMAIN proposed :
           /\ proposed[k] \in popped.used_words
           /\ AddWord(popped, proposed[k]) \in Range(to_check)

----------------------------------------------------------------------------
(* C23 *)

\* C23, checked under CountSpec: solved() is true for a node if and only if,
\* for every column, every letter in that column's allowed set has a usage
\* count greater than zero in that column's counter. Counts of letters not
\* allowed in the column are ignored, and a puzzle with zero columns is
\* solved by the empty node.
C23_SolvedIffEveryAllowedLetterCounted ==
    /\ Solved(typeshift, popped) <=>
           \A i \in DOMAIN typeshift.columns : \A ch \in typeshift.columns[i] :
               popped.char_usages[i][ch] > 0
    /\ Len(typeshift.columns) = 0 => Solved(typeshift, Empty(typeshift))

\* A solved node of two non-empty columns: in one a letter the column does
\* not allow was counted, in the other such a letter was never counted.
C23_Witness ==
    /\ pc = "counting"
    /\ Len(typeshift.columns) = 2
    /\ \A i \in DOMAIN typeshift.columns : typeshift.columns[i] # {}
    /\ Solved(typeshift, popped)
    /\ \E i \in DOMAIN typeshift.columns : \E ch \in Letters :
           ch \notin typeshift.columns[i] /\ popped.char_usages[i][ch] > 0
    /\ \E i \in DOMAIN typeshift.columns : \E ch \in Letters :
           ch \notin typeshift.columns[i] /\ popped.char_usages[i][ch] = 0

----------------------------------------------------------------------------
(* C24 *)

\* child is parent with the word added: the word is in its chosen set, the
\* count of the word's letter at column i is one higher in column i, and
\* every other count is the parent's.
IsCloneWith(parent, child, word) ==
    /\ child.used_words = parent.used_words \cup {word}
    /\ DOMAIN child.char_usages = DOMAIN parent.char_usages
    /\ \A i \in DOMAIN parent.char_usages : \A ch \in Letters :
           child.char_usages[i][ch]
               = parent.char_usages[i][ch] + (IF word[i] = ch THEN 1 ELSE 0)

\* C24: frame of add_word and of branching. At an expansion every node new
\* to the frontier is the expanded node with one proposed word added, every
\* pushed word has such a node, and add_word raised only the count of the
\* word's letter in each column, by exactly 1. The expanded node is the node
\* as it stood in the frontier, each clone starts from it and not from a
\* sibling, the other nodes of the frontier stay, and no step changes the
\* puzzle's columns, candidate list or rarity table.
C24_AddWordChangesOnlyItsClone ==
    [][/\ typeshift' = typeshift
       /\ ExpandsPopped =>
              /\ popped' \in Range(to_check)
              /\ \A x \in Range(to_check) : x # popped' => x \in Range(to_check')
              /\ \A x \in Range(to_check') \ Range(to_check) :
                     \E k \in DOMAIN proposed' :
                         IsCloneWith(popped', x, proposed'[k])
              /\ \A k \in PushedWords(popped', proposed', attempted) :
                     \E x \in Range(to_check') :
                         IsCloneWith(popped', x, proposed'[k])
      ]_vars

\* An expansion of a node of one word or more that pushed two sibling clones
\* next to a node that was in the frontier before.
C24_Witness ==
    /\ proposed # <<>>
    /\ popped.used_words # {}
    /\ \E j, k \in DOMAIN proposed :
           /\ j # k
           /\ \E x, y \in Range(to_check) :
                  /\ IsCloneWith(popped, x, proposed[j])
                  /\ IsCloneWith(popped, y, proposed[k])
    /\ \E x \in Range(to_check) :
           \A k \in DOMAIN proposed : ~IsCloneWith(popped, x, proposed[k])

----------------------------------------------------------------------------
(* C25 *)

\* Each allowed letter of each column occurs at that position in a candidate.
Coverable(ts) ==
    \A i \in DOMAIN ts.columns : \A ch \in ts.columns[i] :
        \E word \in Range(ts.words) : word[i] = ch

\* C25, checked under LiveSpec: progress on coverable puzzles. For every
\* puzzle in which each allowed letter of each column occurs at that position
\* in at least one candidate, find_first_solution never panics and never
\* finds its frontier empty, and it eventually pops a solved node and
\* returns that node's set.
C25_FindFirstReturnsOnCoverablePuzzles ==
    /\ []((mode = FindFirst /\ Coverable(typeshift)) =>
              /\ pc # "panicked"
              /\ pc = "loop" => to_check # <<>>)
    /\ (mode = FindFirst /\ Coverable(typeshift)) ~>
           (/\ mode = FindFirst /\ Returned
            /\ Solved(typeshift, popped)
            /\ result = {popped.used_words})

\* A find-first run on a coverable puzzle of three columns that returned
\* three words or more after three expansions or more, with nodes left in
\* the frontier.
C25_Witness ==
    /\ mode = FindFirst /\ Returned
    /\ Coverable(typeshift)
    /\ Len(typeshift.columns) = 3
    /\ \E S \in result : Cardinality(S) >= 3
    /\ Cardinality(attempted) >= 3
    /\ to_check # <<>>

----------------------------------------------------------------------------
(* C26 *)

\* The words of the node's chosen set with letter ch in column i.
WordsWith(node, i, ch) == {word \in node.used_words : word[i] = ch}

\* C26, checked under LiveSpec: termination. For every puzzle with a
\* non-empty candidate list, with a cover or without, the find-all loop
\* reaches an empty frontier and ends. No node sequence grows forever, also
\* when next_words proposes a word the node already contains: a chosen word
\* is added again at most once per size of the chosen set on the way to a
\* node, so that no usage count exceeds its number of chosen words by more
\* than the size of the node's chosen set.
C26_FindAllLoopEnds ==
    /\ (mode = FindAll /\ Size(typeshift) > 0) ~>
           (mode = FindAll /\ pc # "loop" /\ to_check = <<>>)
    /\ [](\A node \in Nodes : \A i \in DOMAIN node.char_usages : \A ch \in Letters :
              node.char_usages[i][ch]
                  <= Cardinality(WordsWith(node, i, ch))
                         + Cardinality(node.used_words))

\* A find-all run on a puzzle without a cover that ended on an empty
\* frontier after expanding a node with a word added twice.
C26_Witness ==
    /\ mode = FindAll /\ pc # "loop" /\ to_check = <<>>
    /\ Size(typeshift) >= 2
    /\ Covers(typeshift) = {}
    /\ steps >= 4
    /\ \E i \in DOMAIN popped.char_usages : \E ch \in Letters :
           popped.char_usages[i][ch] > Cardinality(WordsWith(popped, i, ch))

====
